---- MODULE Spec2Model ----
(***************************************************************************)
(* A model of lsh (src/src/main.c): the read-eval loop, the line reader,   *)
(* the tokenizer, the builtin table, the dispatcher and the fork / exec /  *)
(* wait life cycle of the one child an external command runs in.           *)
(*                                                                         *)
(* Characters are one-element strings; a C string is a sequence of         *)
(* characters closed by NUL.  Standard input is line-oriented text, so a   *)
(* line that is read holds neither a newline nor a NUL.                    *)
(***************************************************************************)
EXTENDS Integers, Sequences, FiniteSets, TLC

VARIABLES
    pc,         \* where the shell process is in lsh_loop / main
    line,       \* lsh_loop's line: the buffer lsh_read_line returned (with its NUL)
    line0,      \* the text of the line as it was read, before strtok wrote into it
    args,       \* lsh_loop's args: offsets of the tokens in line (tokens borrow line)
    lineMem,    \* allocation state of the line buffer: "none", "live", "freed", "corrupt"
    argsMem,    \* allocation state of the token array
    status,     \* lsh_loop's status: the continuation signal of the last dispatch
    cwd,        \* working directory of the shell process
    outbuf,     \* the shell's stdio buffer of standard output
    out,        \* what has reached standard output (file descriptor 1)
    err,        \* what has reached standard error (unbuffered)
    children,   \* pid -> the child process forked under that pid, while it exists
    pid,        \* lsh_launch's pid
    wstatus,    \* lsh_launch's status, as waitpid filled it in
    nextPid,    \* the pid the next successful fork returns
    exitCode,   \* exit status of the shell process, "none" while it runs
    rd,         \* what the last lsh_read_line met: "none" or one of ReadEvents
    handler,    \* what the last lsh_execute ran: "none", "empty", a builtin name, "launch"
    lastcd,     \* the directory the most recent successful chdir led to
    nread,      \* number of lines read so far
    env,        \* the environment the shell was started in
    hist,       \* the lines read so far, in the order they were read
    dlog,       \* the token lists lsh_execute was called with, in the order of the calls
    rl,         \* lsh_read_line's bufsize and position, while it is stepped through
    sl,         \* lsh_split_line's bufsize, position, token and strtok's saved offset
    oob         \* some write so far went to an index at or beyond its buffer's capacity

vars == <<pc, line, line0, args, lineMem, argsMem, status, cwd, outbuf, out, err,
          children, pid, wstatus, nextPid, exitCode, rd, handler, lastcd, nread, env,
          hist, dlog, rl, sl, oob>>

----------------------------------------------------------------------------
(* Bounds of the model. *)

\* number of lines the input stream delivers before it ends
MaxLines == 2
\* length of the lines the tokenizer is checked on
MaxLen == 4
\* length of the longest line the reader is stepped through: past two growth steps
MaxRead == 2049
\* length of the longest line of one-letter words the tokenizer is stepped through: 129
\* tokens, past two growth steps of the token array
MaxWordChars == 257

(* Program constants. *)
EXIT_SUCCESS == 0
EXIT_FAILURE == 1
LSH_TOK_BUFSIZE == 64
LSH_RL_BUFSIZE == 1024

NUL == "NUL"
BEL == "BEL"
\* a delimiter set that lacks the bell and the carriage return
LSH_TOK_DELIM_Short == {" ", "\t", "\n"}

LSH_TOK_DELIM == {" ", "\t", "\r", "\n", BEL}

----------------------------------------------------------------------------
(* The builtin table. *)

builtin_str == << <<"c", "d">>, <<"h", "e", "l", "p">>, <<"e", "x", "i", "t">> >>

lsh_num_builtins == Len(builtin_str)

\* strcmp(a, b) == 0
strcmp0(a, b) == a = b

----------------------------------------------------------------------------
(* The tokenizer. *)

\* the C string that starts at offset off of buffer buf: the characters up to the next NUL
RECURSIVE CStrAt(_, _)
CStrAt(buf, off) ==
    IF off > Len(buf) \/ buf[off] = NUL THEN <<>>
    ELSE <<buf[off]>> \o CStrAt(buf, off + 1)

\* strtok's scan for the start of a token: the first offset >= p that holds no delimiter
\* (the scan is written as a search for the least such offset, so that lines of
\* thousands of characters can be scanned)
SkipDelims(buf, p) ==
    IF p > Len(buf) THEN p
    ELSE CHOOSE q \in p..(Len(buf) + 1) :
            /\ q > Len(buf) \/ buf[q] \notin LSH_TOK_DELIM
            /\ \A r \in p..(q - 1) : buf[r] \in LSH_TOK_DELIM

\* strtok's scan for the end of a token: the first offset >= p that holds a delimiter or NUL
ScanToken(buf, p) ==
    IF p > Len(buf) THEN p
    ELSE CHOOSE q \in p..(Len(buf) + 1) :
            /\ q > Len(buf) \/ buf[q] = NUL \/ buf[q] \in LSH_TOK_DELIM
            /\ \A r \in p..(q - 1) : buf[r] # NUL /\ buf[r] \notin LSH_TOK_DELIM

\* strtok(.., LSH_TOK_DELIM) resumed at offset save of buf: the token found (0 for NULL),
\* the buffer with the token's closing delimiter overwritten by NUL, and the saved offset
strtok(buf, save) ==
    LET start == SkipDelims(buf, save)
        stop  == ScanToken(buf, start)
    IN  IF start > Len(buf) \/ buf[start] = NUL
        THEN [token |-> 0, buf |-> buf, save |-> start]
        ELSE IF stop <= Len(buf) /\ buf[stop] # NUL
             THEN [token |-> start, buf |-> [buf EXCEPT ![stop] = NUL], save |-> stop + 1]
             ELSE [token |-> start, buf |-> buf, save |-> stop]

\* if (position >= bufsize) bufsize += LSH_TOK_BUFSIZE, for the realloc that follows
tok_grow(position, bufsize) ==
    IF position >= bufsize THEN bufsize + LSH_TOK_BUFSIZE ELSE bufsize

\* the while loop of lsh_split_line, entered with the result tk of the last strtok
RECURSIVE SplitLoop(_, _, _)
SplitLoop(tk, tokens, bufsize) ==
    IF tk.token = 0
    THEN [tokens |-> tokens, line |-> tk.buf, bufsize |-> bufsize]
    ELSE LET stored   == Append(tokens, tk.token)
             position == Len(stored)
             grown    == tok_grow(position, bufsize)
         IN  SplitLoop(strtok(tk.buf, tk.save), stored, grown)

\* lsh_split_line(line): the token array (offsets into line) and line as strtok left it
lsh_split_line(buf) == SplitLoop(strtok(buf, 1), <<>>, LSH_TOK_BUFSIZE)

\* the text of the tokens of a token array over its line
TokenText(buf, tokens) == [k \in 1..Len(tokens) |-> CStrAt(buf, tokens[k])]

----------------------------------------------------------------------------
(* The operating system the shell runs on: directories, the search path. *)

ROOT == <<>>
DirA == << <<"a">> >>
DirAB == << <<"a">>, <<"b">> >>
DirP == << <<"p">> >>

\* the directories that exist, as paths of component names from the root
Dirs == {ROOT, DirA, DirAB, DirP}
\* the directories the shell's user has no search permission on
NoSearch == {DirP}
\* the directory the shell is started in
InitialDir == DirA

\* the names execvp finds an executable for on the search path; the builtins' names
\* are among them
PathExecutables ==
    { <<"l", "s">>, <<"c", "d">>, <<"h", "e", "l", "p">>, <<"e", "x", "i", "t">> }

\* the components of a path name: the runs of characters between slashes
RECURSIVE Components(_, _)
Components(path, cur) ==
    IF path = <<>> THEN (IF cur = <<>> THEN <<>> ELSE <<cur>>)
    ELSE IF Head(path) = "/"
         THEN (IF cur = <<>> THEN <<>> ELSE <<cur>>) \o Components(Tail(path), <<>>)
         ELSE Components(Tail(path), Append(cur, Head(path)))

\* path resolution from directory dir along comps
RECURSIVE Walk(_, _)
Walk(dir, comps) ==
    IF comps = <<>> THEN [ok |-> TRUE, dir |-> dir, errno |-> ""]
    ELSE LET c == Head(comps)
             next == IF c = <<".">> THEN dir
                     ELSE IF c = <<".", ".">>
                          THEN (IF dir = ROOT THEN ROOT ELSE SubSeq(dir, 1, Len(dir) - 1))
                          ELSE Append(dir, c)
         IN  IF next \notin Dirs THEN [ok |-> FALSE, dir |-> dir, errno |-> "ENOENT"]
             ELSE IF next \in NoSearch THEN [ok |-> FALSE, dir |-> dir, errno |-> "EACCES"]
             ELSE Walk(next, Tail(comps))

\* chdir(path) called by a process whose working directory is dir
chdir(dir, path) ==
    IF path = <<>> THEN [ok |-> FALSE, dir |-> dir, errno |-> "ENOENT"]
    ELSE LET r == Walk(IF Head(path) = "/" THEN ROOT ELSE dir, Components(path, <<>>))
         IN  IF r.ok THEN r ELSE [r EXCEPT !.dir = dir]

----------------------------------------------------------------------------
(* The output streams. *)

\* one printf to standard output: the format and its %s argument
Msg(fmt, arg) == [fmt |-> fmt, arg |-> arg]
PROMPT == Msg("> ", <<>>)
EndsLine(m) == m # PROMPT

\* one write to standard error
ErrMsg(fmt, arg) == [fmt |-> fmt, arg |-> arg]
CdNoArg == ErrMsg("lsh: expected argument to \"cd\"\n", "")
AllocError == ErrMsg("lsh: allocation error\n", "")
Perror(errno) == ErrMsg("lsh: %s\n", errno)

\* printf(m) on a stream with buffer buf and emitted text emitted: a stream that is a
\* terminal is line buffered, any other is fully buffered
Printf(buf, emitted, m) ==
    IF env.tty /\ EndsLine(m)
    THEN [outbuf |-> <<>>, out |-> emitted \o Append(buf, m)]
    ELSE [outbuf |-> Append(buf, m), out |-> emitted]

RECURSIVE PrintAll(_, _, _)
PrintAll(buf, emitted, ms) ==
    IF ms = <<>> THEN [outbuf |-> buf, out |-> emitted]
    ELSE LET r == Printf(buf, emitted, Head(ms))
         IN  PrintAll(r.outbuf, r.out, Tail(ms))

----------------------------------------------------------------------------
(* The builtin handlers: each gives its return value, the working directory it *)
(* leaves, what it writes to standard error and what it prints.               *)

\* lsh_cd taking the last argument, not the first, as the directory
lsh_cd_LastArg(a, dir) ==
    IF Len(a) < 2
    THEN [ret |-> 1, cwd |-> dir, err |-> <<CdNoArg>>, prints |-> <<>>]
    ELSE LET r == chdir(dir, a[Len(a)])
         IN  IF r.ok
             THEN [ret |-> 1, cwd |-> r.dir, err |-> <<>>, prints |-> <<>>]
             ELSE [ret |-> 1, cwd |-> dir, err |-> <<Perror(r.errno)>>, prints |-> <<>>]

\* lsh_cd going to the root directory when no argument is given
lsh_cd_Home(a, dir) ==
    IF Len(a) < 2
    THEN [ret |-> 1, cwd |-> ROOT, err |-> <<>>, prints |-> <<>>]
    ELSE LET r == chdir(dir, a[2])
         IN  IF r.ok
             THEN [ret |-> 1, cwd |-> r.dir, err |-> <<>>, prints |-> <<>>]
             ELSE [ret |-> 1, cwd |-> dir, err |-> <<Perror(r.errno)>>, prints |-> <<>>]

\* lsh_cd stopping the shell when chdir fails
lsh_cd_FailStops(a, dir) ==
    IF Len(a) < 2
    THEN [ret |-> 1, cwd |-> dir, err |-> <<CdNoArg>>, prints |-> <<>>]
    ELSE LET r == chdir(dir, a[2])
         IN  IF r.ok
             THEN [ret |-> 1, cwd |-> r.dir, err |-> <<>>, prints |-> <<>>]
             ELSE [ret |-> 0, cwd |-> dir, err |-> <<Perror(r.errno)>>, prints |-> <<>>]

lsh_cd(a, dir) ==
    IF Len(a) < 2
    THEN [ret |-> 1, cwd |-> dir, err |-> <<CdNoArg>>, prints |-> <<>>]
    ELSE LET r == chdir(dir, a[2])
         IN  IF r.ok
             THEN [ret |-> 1, cwd |-> r.dir, err |-> <<>>, prints |-> <<>>]
             ELSE [ret |-> 1, cwd |-> dir, err |-> <<Perror(r.errno)>>, prints |-> <<>>]

\* lsh_help with its loop stopped one table entry early
lsh_help_SkipsLast(a, dir) ==
    [ret |-> 1, cwd |-> dir, err |-> <<>>,
     prints |-> << Msg("Dior's LSH\n", <<>>),
                   Msg("Type program names and arguments, and hit enter.\n", <<>>),
                   Msg("The following are built in:\n", <<>>) >>
                \o [i \in 1..(lsh_num_builtins - 1) |-> Msg("  %s\n", builtin_str[i])]
                \o << Msg("Use the man command for information on other programs.\n", <<>>) >>]

lsh_help(a, dir) ==
    [ret |-> 1, cwd |-> dir, err |-> <<>>,
     prints |-> << Msg("Dior's LSH\n", <<>>),
                   Msg("Type program names and arguments, and hit enter.\n", <<>>),
                   Msg("The following are built in:\n", <<>>) >>
                \o [i \in 1..lsh_num_builtins |-> Msg("  %s\n", builtin_str[i])]
                \o << Msg("Use the man command for information on other programs.\n", <<>>) >>]

\* lsh_exit returning 1
lsh_exit_Continues(a, dir) ==
    [ret |-> 1, cwd |-> dir, err |-> <<>>, prints |-> <<>>]

lsh_exit(a, dir) ==
    [ret |-> 0, cwd |-> dir, err |-> <<>>, prints |-> <<>>]

\* (*builtin_func[i])(args)
builtin_func(i, a, dir) ==
    CASE i = 1 -> lsh_cd(a, dir)
      [] i = 2 -> lsh_help(a, dir)
      [] i = 3 -> lsh_exit(a, dir)

\* the for loop of lsh_execute: the first index whose name equals token 0, 0 if none
RECURSIVE FindBuiltin(_, _)
FindBuiltin(tok, i) ==
    IF i > lsh_num_builtins THEN 0
    ELSE IF strcmp0(tok, builtin_str[i]) THEN i
    ELSE FindBuiltin(tok, i + 1)

\* the for loop started at the second table entry
Lookup_SkipFirst(tok) == FindBuiltin(tok, 2)

Lookup(tok) == FindBuiltin(tok, 1)

BuiltinName(i) ==
    CASE i = 1 -> "cd" [] i = 2 -> "help" [] i = 3 -> "exit"

----------------------------------------------------------------------------
(* The input stream. *)

\* the lines standard input may deliver, each without its newline
InputLines == {
    <<>>,
    <<" ", "\t">>,
    <<"c", "d">>,
    <<"c", "d", "\r", "b">>,
    <<"c", "d", " ", ".", ".", " ", "n">>,
    <<"c", "d", " ", "n">>,
    <<"c", "d", " ", "/", "p">>,
    <<"h", "e", "l", "p">>,
    <<"h", "e", "l", "p", " ", "a">>,
    <<"e", "x", "i", "t">>,
    <<" ", "e", "x", "i", "t", BEL, "a">>,
    <<"e", "x", "i">>,
    <<"C", "d", " ", "b">>,
    <<"l", "s">>,
    <<"l", "s", "\t", "a", " ">> }

\* what one call of lsh_read_line can meet on standard input: a line closed by its
\* newline; the end of the stream before any character of a line ("eof") or after some
\* ("eof_partial"); a read error, at either place; a failed allocation
ReadEvents == {"line", "eof", "eof_partial", "error", "nomem"}

\* the events at which getchar() returns EOF
GetcharEOF == {"eof", "eof_partial", "error"}

\* the reader ending the process with a failure at every EOF
EofStatus_Failure(ev) == EXIT_FAILURE

\* if (c == EOF) exit(EXIT_SUCCESS): the status does not depend on why getchar gave EOF
EofStatus(ev) == EXIT_SUCCESS

----------------------------------------------------------------------------
(* The initial state: main has been entered, nothing has been printed or read. *)

Environments == [tty : BOOLEAN, sigchldIgnored : BOOLEAN]

Init ==
    /\ pc = "prompt"
    /\ line = <<>>
    /\ line0 = <<>>
    /\ args = <<>>
    /\ lineMem = "none"
    /\ argsMem = "none"
    /\ status = 1
    /\ cwd = InitialDir
    /\ outbuf = <<>>
    /\ out = <<>>
    /\ err = <<>>
    /\ children = <<>>
    /\ pid = 0
    /\ wstatus = "uninit"
    /\ nextPid = 1
    /\ exitCode = "none"
    /\ rd = "none"
    /\ handler = "none"
    /\ lastcd = InitialDir
    /\ nread = 0
    /\ env \in Environments
    /\ hist = <<>>
    /\ dlog = <<>>
    /\ rl = [bufsize |-> 0, position |-> 0]
    /\ sl = [bufsize |-> 0, position |-> 0, token |-> 0, save |-> 0]
    /\ oob = FALSE

\* exit(code), and the return from main: the stdio buffers are flushed, the process ends
Exit(code) ==
    /\ pc' = "exited"
    /\ exitCode' = code
    /\ out' = out \o outbuf
    /\ outbuf' = <<>>

----------------------------------------------------------------------------
(* lsh_loop. *)

\* printf("> ")
Prompt ==
    /\ pc = "prompt"
    /\ LET r == Printf(outbuf, out, PROMPT)
       IN  outbuf' = r.outbuf /\ out' = r.out
    /\ pc' = "read"
    /\ UNCHANGED <<line, line0, args, lineMem, argsMem, status, cwd, err, children, pid,
                   wstatus, nextPid, exitCode, rd, handler, lastcd, nread, env, hist, dlog,
                   rl, sl, oob>>

\* line = lsh_read_line(): a whole line up to its newline, or the end of the stream
ReadLine ==
    /\ pc = "read"
    /\ \E ev \in ReadEvents :
          /\ rd' = ev
          /\ CASE ev = "line" ->
                    /\ nread < MaxLines
                    /\ \E l \in InputLines :
                          /\ line' = Append(l, NUL)
                          /\ line0' = l
                          /\ hist' = Append(hist, l)
                    /\ lineMem' = "live"
                    /\ nread' = nread + 1
                    /\ pc' = "split"
                    \* a terminal's pending output is written before the read blocks
                    /\ IF env.tty THEN out' = out \o outbuf /\ outbuf' = <<>>
                                  ELSE UNCHANGED <<out, outbuf>>
                    /\ UNCHANGED <<err, exitCode>>
               [] ev \in GetcharEOF ->
                    \* getchar() returns EOF at the end of the stream and on a read error;
                    \* the characters of an unfinished line are dropped with the buffer
                    /\ Exit(EofStatus(ev))
                    /\ lineMem' = "live"
                    /\ UNCHANGED <<line, line0, nread, err, hist>>
               [] ev = "nomem" ->
                    /\ err' = Append(err, AllocError)
                    /\ Exit(EXIT_FAILURE)
                    /\ UNCHANGED <<line, line0, lineMem, nread, hist>>
    /\ UNCHANGED <<args, argsMem, status, cwd, children, pid, wstatus, nextPid,
                   handler, lastcd, env, dlog,
                   rl, sl, oob>>

\* args = lsh_split_line(line)
SplitLine ==
    /\ pc = "split"
    /\ \E allocated \in BOOLEAN :
          IF allocated
          THEN LET r == lsh_split_line(line)
               IN  /\ args' = r.tokens
                   /\ line' = r.line
                   /\ argsMem' = "live"
                   /\ pc' = "execute"
                   /\ UNCHANGED <<err, out, outbuf, exitCode>>
          ELSE /\ err' = Append(err, AllocError)
               /\ Exit(EXIT_FAILURE)
               /\ UNCHANGED <<args, line, argsMem>>
    /\ UNCHANGED <<line0, lineMem, status, cwd, children, pid, wstatus, nextPid,
                   rd, handler, lastcd, nread, env, hist, dlog,
                   rl, sl, oob>>

\* the directory the most recent successful chdir led to, after the command line a was
\* run in directory dir: a is a successful cd when it names cd, gives a directory, and
\* the operating system can change to it
CdTarget(a, dir, last) ==
    IF a[1] = builtin_str[1] /\ Len(a) >= 2 /\ chdir(dir, a[2]).ok
    THEN chdir(dir, a[2]).dir
    ELSE last

\* lsh_execute without its check for an empty line stops the shell on one
ExecEmpty_Stops ==
    /\ pc = "execute"
    /\ args = <<>>
    /\ status' = 0
    /\ handler' = "empty"
    /\ dlog' = Append(dlog, TokenText(line, args))
    /\ pc' = "free"
    /\ UNCHANGED <<line, line0, args, lineMem, argsMem, cwd, outbuf, out, err, children,
                   pid, wstatus, nextPid, exitCode, rd, lastcd, nread, env, hist,
                   rl, sl, oob>>

\* lsh_execute(args) with args[0] == NULL
ExecEmpty ==
    /\ pc = "execute"
    /\ args = <<>>
    /\ status' = 1
    /\ handler' = "empty"
    /\ dlog' = Append(dlog, TokenText(line, args))
    /\ pc' = "free"
    /\ UNCHANGED <<line, line0, args, lineMem, argsMem, cwd, outbuf, out, err, children,
                   pid, wstatus, nextPid, exitCode, rd, lastcd, nread, env, hist,
                   rl, sl, oob>>

\* lsh_execute(args) with token 0 found in the builtin table: the handler runs
ExecBuiltin ==
    /\ pc = "execute"
    /\ args # <<>>
    /\ LET a == TokenText(line, args)
           i == Lookup(a[1])
       IN  /\ i # 0
           /\ LET r == builtin_func(i, a, cwd)
                  p == PrintAll(outbuf, out, r.prints)
              IN  /\ status' = r.ret
                  /\ cwd' = r.cwd
                  /\ lastcd' = CdTarget(a, cwd, lastcd)
                  /\ err' = err \o r.err
                  /\ outbuf' = p.outbuf
                  /\ out' = p.out
           /\ handler' = BuiltinName(i)
           /\ dlog' = Append(dlog, a)
    /\ pc' = "free"
    /\ UNCHANGED <<line, line0, args, lineMem, argsMem, children, pid, wstatus, nextPid,
                   exitCode, rd, nread, env, hist,
                   rl, sl, oob>>

\* lsh_launch handing the child's failure on as its own result
LaunchResult_Propagates(ws, code) == IF ws = "exited" /\ code = 0 THEN 1 ELSE 0

\* the value lsh_launch returns, whatever wait status ws and exit code the child left
LaunchResult(ws, code) == 1

\* a process the shell forked: it starts as a copy of the shell (image "lsh") inside
\* lsh_launch, with the shell's directory and the shell's stdio buffer
Child(argv, dir, buf) ==
    [state |-> "forked", image |-> "lsh", argv |-> argv, cwd |-> dir, outbuf |-> buf,
     reported |-> FALSE, code |-> 0]

Terminal == {"exited", "signaled"}

\* lsh_launch without its test of pid < 0: the failed fork is waited for
LaunchForkFailed_Waits ==
    /\ err' = err
    /\ pid' = -1
    /\ wstatus' = "uninit"
    /\ pc' = "wait"
    /\ UNCHANGED <<children, nextPid, status>>

\* lsh_launch when fork() returned pid < 0: perror("lsh"), then return 1
LaunchForkFailed ==
    /\ err' = Append(err, Perror("EAGAIN"))
    /\ pid' = -1
    /\ status' = LaunchResult("none", 0)
    /\ pc' = "free"
    /\ UNCHANGED <<children, nextPid, wstatus>>

\* lsh_execute(args) with token 0 in no table entry: lsh_launch(args) up to its fork()
ExecLaunch ==
    /\ pc = "execute"
    /\ args # <<>>
    /\ LET a == TokenText(line, args)
       IN  /\ Lookup(a[1]) = 0
           /\ \E forked \in BOOLEAN :
                 IF forked
                 THEN \* the child is a copy of the shell: its directory, its stdio buffer
                      /\ children' = (nextPid :> Child(a, cwd, outbuf)) @@ children
                      /\ pid' = nextPid
                      /\ nextPid' = nextPid + 1
                      /\ wstatus' = "uninit"
                      /\ pc' = "wait"
                      /\ UNCHANGED <<err, status>>
                 ELSE LaunchForkFailed
    /\ handler' = "launch"
    /\ dlog' = Append(dlog, TokenText(line, args))
    /\ UNCHANGED <<line, line0, args, lineMem, argsMem, cwd, outbuf, out, exitCode,
                   rd, lastcd, nread, env, hist,
                   rl, sl, oob>>

\* the frame of a step of a child: the shell's own state is untouched
ChildFrame ==
    UNCHANGED <<pc, line, line0, args, lineMem, argsMem, status, cwd, outbuf, pid,
                wstatus, nextPid, exitCode, rd, handler, lastcd, nread, env, hist, dlog,
                   rl, sl, oob>>

\* the child without its exit(EXIT_FAILURE): after a failed execvp it runs on
ChildExec_NoExit(c) ==
    /\ children[c].state = "forked"
    /\ IF children[c].argv[1] \in PathExecutables
       THEN /\ children' = [children EXCEPT ![c].state = "running", ![c].image = "program",
                                            ![c].outbuf = <<>>]
            /\ UNCHANGED <<err, out>>
       ELSE /\ err' = Append(err, Perror("ENOENT"))
            /\ children' = [children EXCEPT ![c].state = "running"]
            /\ UNCHANGED out
    /\ UNCHANGED <<pc, line, line0, args, lineMem, argsMem, status, cwd, outbuf, pid,
                   wstatus, nextPid, exitCode, rd, handler, lastcd, nread, env, hist, dlog,
                   rl, sl, oob>>

\* the child, pid == 0: execvp(args[0], args); if it fails perror and exit(EXIT_FAILURE)
ChildExec(c) ==
    /\ children[c].state = "forked"
    /\ IF children[c].argv[1] \in PathExecutables
       THEN \* the image is replaced: the copy of the shell, its buffers included, is gone
            /\ children' = [children EXCEPT ![c].state = "running", ![c].image = "program",
                                            ![c].outbuf = <<>>]
            /\ UNCHANGED <<err, out>>
       ELSE /\ err' = Append(err, Perror("ENOENT"))
            \* exit() flushes the child's copy of the stdio buffer
            /\ out' = out \o children[c].outbuf
            /\ children' = [children EXCEPT ![c].state = "exited",
                                            ![c].code = EXIT_FAILURE,
                                            ![c].outbuf = <<>>]
    /\ ChildFrame

\* the program the child runs exits with a status of its own
ChildExit(c) ==
    /\ children[c].state = "running"
    /\ \E code \in {EXIT_SUCCESS, EXIT_FAILURE} :
          children' = [children EXCEPT ![c].state = "exited", ![c].code = code]
    /\ UNCHANGED <<err, out>>
    /\ ChildFrame

\* the program the child runs is killed by a signal
ChildKill(c) ==
    /\ children[c].state \in {"running", "stopped"}
    /\ children' = [children EXCEPT ![c].state = "signaled"]
    /\ UNCHANGED <<err, out>>
    /\ ChildFrame

\* the child is stopped by a job-control signal
ChildStop(c) ==
    /\ children[c].state = "running"
    /\ children' = [children EXCEPT ![c].state = "stopped", ![c].reported = FALSE]
    /\ UNCHANGED <<err, out>>
    /\ ChildFrame

\* the stopped child is continued
ChildCont(c) ==
    /\ children[c].state = "stopped"
    /\ children' = [children EXCEPT ![c].state = "running"]
    /\ UNCHANGED <<err, out>>
    /\ ChildFrame

\* the do-while ended by a stopped child as well
WaitOver_Stopped(ws) == ws \in {"exited", "signaled", "stopped"}

\* WIFEXITED(status) || WIFSIGNALED(status)
WaitOver(ws) == ws \in Terminal

\* what waitpid(pid, &status, WUNTRACED) reports of child ch: a termination, or a stop
\* it has not reported yet; "none" while the call blocks
WaitReport(ch) ==
    IF ch.state \in Terminal THEN ch.state
    ELSE IF ch.state = "stopped" /\ ~ch.reported THEN "stopped"
    ELSE "none"

\* one round of the do-while of lsh_launch in which waitpid succeeds
Waitpid ==
    /\ pc = "wait"
    /\ pid \in DOMAIN children
    /\ LET ws == WaitReport(children[pid])
       IN  /\ ws # "none"
           /\ ~(env.sigchldIgnored /\ ws \in Terminal)
           /\ wstatus' = ws
           /\ IF ws \in Terminal
              THEN children' = [p \in DOMAIN children \ {pid} |-> children[p]]
              ELSE children' = [children EXCEPT ![pid].reported = TRUE]
           /\ IF WaitOver(ws)
              THEN pc' = "free" /\ status' = LaunchResult(ws, children[pid].code)
              ELSE pc' = "wait" /\ UNCHANGED status
    /\ UNCHANGED <<line, line0, args, lineMem, argsMem, cwd, outbuf, out, err, pid,
                   nextPid, exitCode, rd, handler, lastcd, nread, env, hist, dlog,
                   rl, sl, oob>>

\* one round of the do-while in which waitpid fails: with SIGCHLD ignored a child that
\* ends leaves no status, waitpid returns -1 (ECHILD) once no child is left and status
\* keeps what it held, which before the first successful waitpid is indeterminate
WaitFail ==
    /\ pc = "wait"
    /\ env.sigchldIgnored
    /\ pid \in DOMAIN children => children[pid].state \in Terminal
    /\ children' = [p \in DOMAIN children \ {pid} |-> children[p]]
    /\ \E ws \in {"exited", "signaled", "stopped"} :
          /\ wstatus # "uninit" => ws = wstatus
          /\ wstatus' = ws
          /\ IF WaitOver(ws)
             THEN pc' = "free" /\ status' = LaunchResult(ws, 0)
             ELSE pc' = "wait" /\ UNCHANGED status
    /\ UNCHANGED <<line, line0, args, lineMem, argsMem, cwd, outbuf, out, err, pid,
                   nextPid, exitCode, rd, handler, lastcd, nread, env, hist, dlog,
                   rl, sl, oob>>

\* free(p) of an allocation in state m; freeing what is not live is undefined: the
\* allocator's state is lost
free(m) == IF m = "live" THEN "freed" ELSE "corrupt"

\* lsh_loop releasing the line a second time in place of the token array
FreeArgs_FreesLine ==
    /\ pc = "free_args"
    /\ lineMem' = free(lineMem)
    /\ pc' = "check"
    /\ UNCHANGED <<line, line0, args, argsMem, status, cwd, outbuf, out, err, children,
                   pid, wstatus, nextPid, exitCode, rd, handler, lastcd, nread, env, hist, dlog,
                   rl, sl, oob>>

\* free(line)
FreeLine ==
    /\ pc = "free"
    /\ lineMem' = free(lineMem)
    /\ pc' = "free_args"
    /\ UNCHANGED <<line, line0, args, argsMem, status, cwd, outbuf, out, err, children,
                   pid, wstatus, nextPid, exitCode, rd, handler, lastcd, nread, env, hist, dlog,
                   rl, sl, oob>>

\* free(args)
FreeArgs ==
    /\ pc = "free_args"
    /\ argsMem' = free(argsMem)
    /\ pc' = "check"
    /\ UNCHANGED <<line, line0, args, lineMem, status, cwd, outbuf, out, err, children,
                   pid, wstatus, nextPid, exitCode, rd, handler, lastcd, nread, env, hist, dlog,
                   rl, sl, oob>>

\* while (status)
LoopCheck ==
    /\ pc = "check"
    /\ pc' = IF status # 0 THEN "prompt" ELSE "done"
    /\ UNCHANGED <<line, line0, args, lineMem, argsMem, status, cwd, outbuf, out, err,
                   children, pid, wstatus, nextPid, exitCode, rd, handler, lastcd,
                   nread, env, hist, dlog,
                   rl, sl, oob>>

\* lsh_loop has returned: main returns EXIT_SUCCESS
MainReturn ==
    /\ pc = "done"
    /\ Exit(EXIT_SUCCESS)
    /\ UNCHANGED <<line, line0, args, lineMem, argsMem, status, cwd, err, children, pid,
                   wstatus, nextPid, rd, handler, lastcd, nread, env, hist, dlog,
                   rl, sl, oob>>

ChildExecs == \E c \in DOMAIN children : ChildExec(c)
ChildExits == \E c \in DOMAIN children : ChildExit(c)
ChildKills == \E c \in DOMAIN children : ChildKill(c)
ChildStops == \E c \in DOMAIN children : ChildStop(c)
ChildConts == \E c \in DOMAIN children : ChildCont(c)

Next ==
    \/ Prompt
    \/ ReadLine
    \/ SplitLine
    \/ ExecEmpty
    \/ ExecBuiltin
    \/ ExecLaunch
    \/ Waitpid
    \/ WaitFail
    \/ FreeLine
    \/ FreeArgs
    \/ LoopCheck
    \/ MainReturn
    \/ ChildExecs
    \/ ChildExits
    \/ ChildKills
    \/ ChildStops
    \/ ChildConts

Spec == Init /\ [][Next]_vars

\* the steps of the shell process itself
ShellStep ==
    \/ Prompt
    \/ ReadLine
    \/ SplitLine
    \/ ExecEmpty
    \/ ExecBuiltin
    \/ ExecLaunch
    \/ Waitpid
    \/ WaitFail
    \/ FreeLine
    \/ FreeArgs
    \/ LoopCheck
    \/ MainReturn

\* The shell under a fair scheduler: the shell process keeps running while it can take
\* a step (a read returns once a line, the end of the stream or an error is there; a
\* waitpid returns once there is something to report), and a forked child gets to its
\* execvp.  What the programs the children run do, and when, is left open.
FairSpec == Init /\ [][Next]_vars /\ WF_vars(ShellStep) /\ WF_vars(ChildExecs)

----------------------------------------------------------------------------
(* lsh_read_line and lsh_split_line stepped through one character and one token at *)
(* a time, with the capacity of their buffers, on lines long enough to make both    *)
(* buffers grow.                                                                    *)

\* the line buffer growing only once position has passed its capacity
rl_grow_Late(position, bufsize) ==
    IF position > bufsize THEN bufsize + LSH_RL_BUFSIZE ELSE bufsize

\* if (position >= bufsize) bufsize += LSH_RL_BUFSIZE, for the realloc that follows
rl_grow(position, bufsize) ==
    IF position >= bufsize THEN bufsize + LSH_RL_BUFSIZE ELSE bufsize

\* the characters standard input may deliver after text: the long lines are lines of
\* the letter a up to MaxRead characters, and lines of one-letter words separated by
\* single spaces up to MaxWordChars characters
NextChars(text) ==
    IF Len(text) = 0 THEN {"a"}
    ELSE IF Len(text) = 1 THEN {"a", " "}
    ELSE IF text[2] = "a" THEN (IF Len(text) < MaxRead THEN {"a"} ELSE {})
    ELSE IF Len(text) < MaxWordChars THEN {text[Len(text) - 1]} ELSE {}

\* lsh_read_line up to its loop: the buffer is allocated
ReadStart ==
    /\ pc = "read"
    /\ \E allocated \in BOOLEAN :
          IF allocated
          THEN /\ rl' = [bufsize |-> LSH_RL_BUFSIZE, position |-> 0]
               /\ line' = <<>>
               /\ lineMem' = "live"
               /\ pc' = "getchar"
               /\ IF env.tty THEN out' = out \o outbuf /\ outbuf' = <<>>
                             ELSE UNCHANGED <<out, outbuf>>
               /\ UNCHANGED <<err, exitCode, rd>>
          ELSE /\ err' = Append(err, AllocError)
               /\ Exit(EXIT_FAILURE)
               /\ rd' = "nomem"
               /\ UNCHANGED <<rl, line, lineMem>>
    /\ UNCHANGED <<line0, args, argsMem, status, cwd, children, pid, wstatus, nextPid,
                   handler, lastcd, nread, env, hist, dlog, sl, oob>>

\* one round of the loop of lsh_read_line: line holds the characters stored so far
GetChar ==
    /\ pc = "getchar"
    /\ \E c \in NextChars(line) \cup {"\n", "EOF"} :
          CASE c = "EOF" ->
                 /\ rd' = (IF line = <<>> THEN "eof" ELSE "eof_partial")
                 /\ Exit(EofStatus(rd'))
                 /\ UNCHANGED <<line, line0, rl, oob, err, hist, nread>>
            [] c = "\n" ->
                 \* buffer[position] = '\0'; return buffer
                 /\ oob' = (oob \/ ~(rl.position < rl.bufsize))
                 /\ line' = Append(line, NUL)
                 /\ line0' = line
                 /\ hist' = Append(hist, line)
                 /\ nread' = nread + 1
                 /\ rd' = "line"
                 /\ pc' = "split"
                 /\ UNCHANGED <<rl, err, exitCode, out, outbuf>>
            [] OTHER ->
                 \* buffer[position] = c; position++; the buffer grows when it is full
                 /\ oob' = (oob \/ ~(rl.position < rl.bufsize))
                 /\ line' = Append(line, c)
                 /\ LET position == rl.position + 1
                        grown    == rl_grow(position, rl.bufsize)
                    IN  \E reallocated \in BOOLEAN :
                           IF reallocated \/ grown = rl.bufsize
                           THEN /\ rl' = [bufsize |-> grown, position |-> position]
                                /\ pc' = "getchar"
                                /\ UNCHANGED <<err, exitCode, out, outbuf, rd>>
                           ELSE /\ err' = Append(err, AllocError)
                                /\ Exit(EXIT_FAILURE)
                                /\ rd' = "nomem"
                                /\ rl' = [bufsize |-> grown, position |-> position]
                 /\ UNCHANGED <<line0, hist, nread>>
    /\ UNCHANGED <<args, lineMem, argsMem, status, cwd, children, pid, wstatus, nextPid,
                   handler, lastcd, env, dlog, sl>>

\* lsh_split_line up to its loop: the token array is allocated, strtok finds token 0
SplitStart ==
    /\ pc = "split"
    /\ \E allocated \in BOOLEAN :
          IF allocated
          THEN LET tk == strtok(line, 1)
               IN  /\ sl' = [bufsize |-> LSH_TOK_BUFSIZE, position |-> 0,
                             token |-> tk.token, save |-> tk.save]
                   /\ line' = tk.buf
                   /\ args' = <<>>
                   /\ argsMem' = "live"
                   /\ pc' = "tokens"
                   /\ UNCHANGED <<err, out, outbuf, exitCode>>
          ELSE /\ err' = Append(err, AllocError)
               /\ Exit(EXIT_FAILURE)
               /\ UNCHANGED <<sl, line, args, argsMem>>
    /\ UNCHANGED <<line0, lineMem, status, cwd, children, pid, wstatus, nextPid, rd,
                   handler, lastcd, nread, env, hist, dlog, rl, oob>>

\* one round of the while loop of lsh_split_line
SplitToken ==
    /\ pc = "tokens"
    /\ sl.token # 0
    \* tokens[position] = token; position++; the array grows when it is full
    /\ oob' = (oob \/ ~(sl.position < sl.bufsize))
    /\ args' = Append(args, sl.token)
    /\ LET position == sl.position + 1
           grown    == tok_grow(position, sl.bufsize)
           tk       == strtok(line, sl.save)
       IN  \E reallocated \in BOOLEAN :
              IF reallocated \/ grown = sl.bufsize
              THEN /\ sl' = [bufsize |-> grown, position |-> position,
                             token |-> tk.token, save |-> tk.save]
                   /\ line' = tk.buf
                   /\ pc' = "tokens"
                   /\ UNCHANGED <<err, out, outbuf, exitCode>>
              ELSE /\ err' = Append(err, AllocError)
                   /\ Exit(EXIT_FAILURE)
                   /\ sl' = [sl EXCEPT !.bufsize = grown, !.position = position]
                   /\ UNCHANGED line
    /\ UNCHANGED <<line0, lineMem, argsMem, status, cwd, children, pid, wstatus, nextPid,
                   rd, handler, lastcd, nread, env, hist, dlog, rl>>

\* the end of lsh_split_line: tokens[position] = NULL; return tokens
SplitEnd ==
    /\ pc = "tokens"
    /\ sl.token = 0
    /\ oob' = (oob \/ ~(sl.position < sl.bufsize))
    /\ pc' = "execute"
    /\ UNCHANGED <<line, line0, args, lineMem, argsMem, status, cwd, outbuf, out, err,
                   children, pid, wstatus, nextPid, exitCode, rd, handler, lastcd, nread,
                   env, hist, dlog, rl, sl>>

GrowNext ==
    \/ Prompt
    \/ ReadStart
    \/ GetChar
    \/ SplitStart
    \/ SplitToken
    \/ SplitEnd

\* one line read and tokenized step by step
GrowSpec == Init /\ [][GrowNext]_vars

----------------------------------------------------------------------------
(* The tokenizer on its own: lsh_split_line applied to every short line. *)

\* the characters of those lines: the five delimiters and two letters
TokChars == {" ", "\t", "\r", "\n", BEL, "a", "b"}

TokLines == UNION {[1..n -> TokChars] : n \in 0..MaxLen}

TokInit ==
    /\ pc = "split"
    /\ \E l \in TokLines :
          /\ line = Append(l, NUL)
          /\ line0 = l
          /\ hist = <<l>>
    /\ dlog = <<>>
    /\ rl = [bufsize |-> 0, position |-> 0]
    /\ sl = [bufsize |-> 0, position |-> 0, token |-> 0, save |-> 0]
    /\ oob = FALSE
    /\ args = <<>>
    /\ lineMem = "live"
    /\ argsMem = "none"
    /\ status = 1
    /\ cwd = InitialDir
    /\ env \in Environments
    /\ outbuf = (IF env.tty THEN <<>> ELSE <<PROMPT>>)
    /\ out = (IF env.tty THEN <<PROMPT>> ELSE <<>>)
    /\ err = <<>>
    /\ children = <<>>
    /\ pid = 0
    /\ wstatus = "uninit"
    /\ nextPid = 1
    /\ exitCode = "none"
    /\ rd = "line"
    /\ handler = "none"
    /\ lastcd = InitialDir
    /\ nread = 1

TokNext == SplitLine

TokSpec == TokInit /\ [][TokNext]_vars

----------------------------------------------------------------------------
(* What the claims speak of, said without the program's own algorithms. *)

\* space, tab, carriage return, newline, bell
Delimiters == {" ", "\t", "\r", "\n", BEL}

\* the offsets of l at which a maximal run of non-delimiter characters starts
RunStarts(l) ==
    {i \in 1..Len(l) : l[i] \notin Delimiters /\ (i = 1 \/ l[i - 1] \in Delimiters)}

\* the offset at which the run that starts at i ends
RunEnd(l, i) ==
    CHOOSE j \in i..Len(l) :
        /\ \A k \in i..j : l[k] \notin Delimiters
        /\ j = Len(l) \/ l[j + 1] \in Delimiters

RECURSIVE Ascending(_)
Ascending(S) ==
    IF S = {} THEN <<>>
    ELSE LET m == CHOOSE x \in S : \A y \in S : x <= y
         IN  <<m>> \o Ascending(S \ {m})

\* the maximal runs of non-delimiter characters of l, left to right
MaximalRuns(l) ==
    LET starts == Ascending(RunStarts(l))
    IN  [k \in 1..Len(starts) |-> SubSeq(l, starts[k], RunEnd(l, starts[k]))]

NameCd == <<"c", "d">>
NameHelp == <<"h", "e", "l", "p">>
NameExit == <<"e", "x", "i", "t">>
BuiltinNames == {NameCd, NameHelp, NameExit}

\* the words of the line being processed
Words == MaximalRuns(line0)
\* the line being processed names command w
Names(w) == Words # <<>> /\ Words[1] = w
NamesExternal == Words # <<>> /\ Words[1] \notin BuiltinNames

\* the dispatcher returns in this step
DispatchReturns == pc \in {"execute", "wait"} /\ pc' = "free"

\* no child is spawned in this step
NoSpawn == nextPid' = nextPid /\ DOMAIN children' \subseteq DOMAIN children

----------------------------------------------------------------------------
(* C1: the loop leaves RUNNING for TERMINATED exactly when the dispatcher returned  *)
(* continuation=false, which it does exactly when token 0 of the line is "exit",    *)
(* with or without arguments; once TERMINATED nothing is prompted, read, dispatched *)
(* or spawned any more and the process ends with a success status.                  *)
C1_Step ==
    /\ DispatchReturns => (status' = 0 <=> Names(NameExit))
    /\ pc = "check" => (pc' = "done" <=> status = 0)
    /\ pc = "check" => (pc' = "done" <=> Names(NameExit))
    /\ pc' = "done" => pc \in {"check", "done"}
    /\ pc = "done" =>
          /\ pc' = "exited" /\ exitCode' = EXIT_SUCCESS
          /\ out' \o outbuf' = out \o outbuf
          /\ UNCHANGED <<nread, rd, handler, children, nextPid, err, cwd, status>>
    /\ pc = "exited" => UNCHANGED vars

\* C1: every step keeps to it: the loop ends exactly on a dispatch of "exit", and then only main's successful return follows
C1_ExitTerminates == [][C1_Step]_vars

C1_Witness ==
    /\ pc = "exited" /\ exitCode = EXIT_SUCCESS /\ status = 0
    /\ line0 = <<" ", "e", "x", "i", "t", BEL, "a">>
    /\ nread = 2

(* C2: dispatching a non-empty token list whose token 0 is no builtin name returns *)
(* continuation=true whatever became of the child (fork failure, failed image      *)
(* replacement, exit 0, exit non-zero, death by signal); the loop never terminates *)
(* after an external command.                                                      *)
C2_ExternalContinues ==
    /\ (pc \in {"free", "free_args", "check"} /\ NamesExternal) => status = 1
    /\ (pc = "done" => ~NamesExternal)
    /\ (pc \in {"free", "free_args", "check", "wait"} /\ handler = "launch")
          => NamesExternal

C2_Witness ==
    /\ pc = "check" /\ handler = "launch" /\ wstatus = "signaled" /\ status = 1
    /\ ~env.sigchldIgnored

(* C3: in the parent lsh_launch returns only once the child it spawned has exited or *)
(* been killed by a signal; a wait result that reports the child stopped does not    *)
(* end the wait, however often the child is stopped and continued.                   *)
C3_Step ==
    /\ (pc = "wait" /\ pc' # "wait") =>
          /\ pid \in DOMAIN children
          /\ children[pid].state \in {"exited", "signaled"}
          /\ pc' = "free"
    /\ (pc = "wait" /\ wstatus' = "stopped") => pc' = "wait"
    /\ (pc = "wait" /\ pid \in DOMAIN children
          /\ children[pid].state \notin {"exited", "signaled"}) => pc' = "wait"

\* C3: every step keeps to it: the wait ends only on an exited or signaled child, never on a stopped one
C3_WaitsForTermination == [][C3_Step]_vars

C3_Witness ==
    /\ pc = "wait" /\ wstatus = "stopped"
    /\ pid \in DOMAIN children
    /\ children[pid].state = "stopped" /\ ~children[pid].reported

(* C4: a token list whose token 0 is exactly (case-sensitively) a builtin name runs *)
(* that builtin's handler and spawns no child, even when the search path holds an   *)
(* executable of that name; every other non-empty token 0 goes to the launcher.     *)
C4_Step ==
    (pc = "execute" /\ pc' # "execute") =>
        /\ Names(NameCd) => handler' = "cd" /\ NoSpawn /\ pc' = "free"
        /\ Names(NameHelp) => handler' = "help" /\ NoSpawn /\ pc' = "free"
        /\ Names(NameExit) => handler' = "exit" /\ NoSpawn /\ pc' = "free"
        /\ NamesExternal => handler' = "launch"
        /\ handler' \in {"cd", "help", "exit"} => children' = children

\* C4: every dispatch keeps to it: a builtin name runs its handler and spawns nothing, any other name is launched
C4_BuiltinsShadow == [][C4_Step]_vars

C4_Witness ==
    /\ pc = "free" /\ handler = "cd" /\ Words[1] = NameCd
    /\ BuiltinNames \subseteq PathExecutables
    /\ children = <<>> /\ nextPid = 1

(* C5: the tokenizer's result is the left-to-right sequence of the maximal runs of *)
(* non-delimiter characters of the line, the delimiters being exactly space, tab,  *)
(* carriage return, newline and bell: no token is empty, none holds a delimiter.   *)
C5_TokensAreMaximalRuns ==
    pc = "execute" =>
        LET toks == TokenText(line, args)
        IN  /\ toks = MaximalRuns(line0)
            /\ \A k \in 1..Len(toks) :
                  /\ toks[k] # <<>>
                  /\ \A j \in 1..Len(toks[k]) : toks[k][j] \notin Delimiters

C5_Witness ==
    /\ pc = "execute"
    /\ line0 = <<BEL, "a", "\r">>
    /\ TokenText(line, args) = << <<"a">> >>

(* C6: an empty or all-delimiter line gives an empty token list, and dispatching an *)
(* empty token list returns continuation=true, spawns no child, runs no builtin     *)
(* handler, writes no diagnostic and leaves the working directory unchanged.        *)
C6_Step ==
    /\ (pc = "split" /\ pc' = "execute" /\ \A i \in 1..Len(line0) : line0[i] \in Delimiters)
          => args' = <<>>
    /\ (pc = "execute" /\ args = <<>> /\ pc' # "execute") =>
          /\ pc' = "free"
          /\ status' = 1
          /\ NoSpawn /\ children' = children
          /\ handler' \notin {"cd", "help", "exit", "launch"}
          /\ UNCHANGED <<err, out, outbuf, cwd, lastcd>>

\* C6: every step keeps to it: an all-delimiter line has no tokens and its dispatch is a no-op returning continuation=true
C6_EmptyLineIsNoOp == [][C6_Step]_vars

C6_Witness ==
    /\ pc = "free" /\ handler = "empty" /\ status = 1
    /\ line0 = <<" ", "\t">>

(* C7: each child starts in the directory the most recent successful cd led to, or *)
(* in the shell's initial directory if there was none.                             *)
C7_ChildStartsInLastCd ==
    /\ \A c \in DOMAIN children : children[c].cwd = lastcd
    /\ cwd = lastcd

C7_Witness ==
    \E c \in DOMAIN children :
        /\ children[c].cwd = ROOT
        /\ children[c].state = "running"
        /\ lastcd = ROOT

(* C8: cd with no argument leaves the working directory unchanged, writes the       *)
(* missing-argument diagnostic to the error stream and returns continuation=true;   *)
(* with arguments only the first is the target, the others are ignored.             *)
C8_Step ==
    (pc = "execute" /\ Names(NameCd) /\ pc' # "execute") =>
        /\ status' = 1
        /\ IF Len(Words) = 1
           THEN /\ cwd' = cwd
                /\ err' = Append(err, ErrMsg("lsh: expected argument to \"cd\"\n", ""))
           ELSE LET r == chdir(cwd, Words[2])
                IN  /\ cwd' = r.dir
                    /\ r.ok => err' = err

\* C8: every dispatch of cd keeps to it: no argument, no change and the missing-argument diagnostic; else the first argument is the target
C8_CdArguments == [][C8_Step]_vars

C8_Witness ==
    /\ pc = "free" /\ handler = "cd"
    /\ line0 = NameCd
    /\ cwd = InitialDir
    /\ err = <<CdNoArg>>

(* C9: a cd whose directory change fails (no such directory, permission denied)    *)
(* leaves the working directory as it was, writes a diagnostic to the error stream *)
(* and returns continuation=true.                                                  *)
C9_Step ==
    (pc = "execute" /\ Names(NameCd) /\ Len(Words) >= 2 /\ pc' # "execute"
        /\ ~chdir(cwd, Words[2]).ok) =>
        /\ cwd' = cwd
        /\ Len(err') = Len(err) + 1
        /\ SubSeq(err', 1, Len(err)) = err
        /\ err'[Len(err')] \in {Perror("ENOENT"), Perror("EACCES")}
        /\ status' = 1
        /\ pc' = "free"

\* C9: every dispatch of a failing cd keeps to it: directory unchanged, one diagnostic, continuation=true
C9_CdFailure == [][C9_Step]_vars

C9_Witness ==
    /\ pc = "free" /\ handler = "cd"
    /\ Words = <<NameCd, <<"/", "p">> >>
    /\ err = <<Perror("EACCES")>>
    /\ cwd = InitialDir /\ status = 1

(* C10: dispatching a token list that names a program that does not exist writes a *)
(* diagnostic to the error stream, returns continuation=true and leaves the shell's *)
(* working directory unchanged; the failure stays in the child, which exits with a  *)
(* failure status.                                                                  *)
NamesMissing == NamesExternal /\ Words[1] \notin PathExecutables

C10_Step ==
    /\ \A c \in DOMAIN children :
          (children[c].state = "forked" /\ children[c].argv[1] \notin PathExecutables
              /\ children' # children) =>
              /\ c \in DOMAIN children'
              /\ children'[c].state = "exited"
              /\ children'[c].code = EXIT_FAILURE
              /\ err' = Append(err, Perror("ENOENT"))
              /\ UNCHANGED <<pc, status, cwd, lastcd, line, args, nread, exitCode>>
    /\ (pc = "execute" /\ NamesMissing /\ pc' # "execute") =>
          /\ cwd' = cwd
          /\ \/ pc' = "wait" /\ err' = err /\ children'[pid'].argv[1] = Words[1]
             \/ pc' = "free" /\ status' = 1 /\ err' = Append(err, Perror("EAGAIN"))
    /\ (pc = "wait" /\ NamesMissing /\ pc' # "wait") =>
          /\ pc' = "free"
          /\ status' = 1
          /\ cwd' = cwd
          /\ err' = err
          /\ err # <<>> /\ err[Len(err)] = Perror("ENOENT")

\* C10: every step keeps to it: a missing program costs a diagnostic and the child's failure exit, the shell continues unchanged
C10_MissingProgram == [][C10_Step]_vars

C10_Witness ==
    /\ pc = "free" /\ handler = "launch"
    /\ Words = << <<"e", "x", "i">> >>
    /\ wstatus = "exited"
    /\ err = <<Perror("ENOENT")>>
    /\ status = 1 /\ cwd = InitialDir

----------------------------------------------------------------------------
\* C11: a read failure other than the clean end of the stream ends the process with a
\* failure status, the clean end of the stream with a success status.
C11_ReadErrorFails ==
    pc = "exited" =>
       /\ rd = "error" => exitCode = EXIT_FAILURE
       /\ rd = "eof" => exitCode = EXIT_SUCCESS

----------------------------------------------------------------------------
\* C12: the end of the stream met with no character of the current line read ends the
\* process with a success status, after any number of lines; met as the very first
\* input, nothing was tokenized, dispatched or launched and only the prompt was printed.
C12_EofIsSuccess ==
    (pc = "exited" /\ rd = "eof") =>
       /\ exitCode = EXIT_SUCCESS
       /\ outbuf = <<>>
       /\ nread = 0 =>
             /\ handler = "none"
             /\ args = <<>> /\ argsMem = "none"
             /\ children = <<>> /\ nextPid = 1
             /\ cwd = InitialDir
             /\ out = <<PROMPT>>
             /\ err = <<>>

C12_Witness == pc = "exited" /\ rd = "eof" /\ nread = 0 /\ out = <<PROMPT>>

C12_WitnessLater == pc = "exited" /\ rd = "eof" /\ nread = MaxLines /\ handler = "help"

----------------------------------------------------------------------------
\* C13: when fork fails, lsh_launch writes the error to standard error and returns
\* true; no child exists, no program runs, nothing is waited for.
C13_Step ==
    (pc = "execute" /\ handler' = "launch" /\ pid' < 0) =>
       /\ \E e \in {"EAGAIN", "ENOMEM"} : err' = Append(err, Perror(e))
       /\ status' # 0
       /\ pc' = "free"
       /\ children' = <<>> /\ children = <<>>
       /\ nextPid' = nextPid
       /\ wstatus' = wstatus
       /\ UNCHANGED <<out, outbuf, cwd, line, args>>

\* C13: a failed fork is reported and the loop goes on with nothing run
C13_ForkFailure == [][C13_Step]_vars

C13_Witness ==
    /\ pc = "free" /\ handler = "launch" /\ pid < 0
    /\ err = <<Perror("EAGAIN")>>
    /\ children = <<>> /\ nextPid = 1 /\ status = 1

----------------------------------------------------------------------------
\* the text help writes: the banner, one line per builtin in table order, the closing line
HelpBanner ==
    << Msg("Dior's LSH\n", <<>>),
       Msg("Type program names and arguments, and hit enter.\n", <<>>),
       Msg("The following are built in:\n", <<>>) >>
HelpNameLine(n) == Msg("  %s\n", n)
HelpClosing == Msg("Use the man command for information on other programs.\n", <<>>)
HelpText ==
    HelpBanner \o <<HelpNameLine(NameCd), HelpNameLine(NameHelp), HelpNameLine(NameExit)>>
               \o <<HelpClosing>>

\* everything printed to standard output so far, emitted or still buffered
Printed == out \o outbuf

\* the dispatch of a line naming help, whatever its arguments
C14_Step ==
    (pc = "execute" /\ Names(NameHelp) /\ pc' # "execute") =>
        /\ Printed' = Printed \o HelpText
        /\ status' = 1
        /\ pc' = "free"
        /\ UNCHANGED <<cwd, err, children, nextPid>>

\* the input help, exit, both lines dispatched and the process ended
C14_HelpExit ==
    (pc = "exited" /\ hist = <<NameHelp, NameExit>> /\ Len(dlog) = 2) =>
        /\ out = <<PROMPT>> \o HelpText \o <<PROMPT>>
        /\ err = <<>>
        /\ exitCode = EXIT_SUCCESS

\* C14: help ignores its arguments, prints the banner, one line per builtin in table
\* order and the closing line, and returns true; after the input help, exit the banner
\* was printed once and the process ended with a success status.
C14_Help == [][C14_Step /\ C14_HelpExit']_vars

C14_Witness ==
    /\ pc = "exited" /\ hist = <<NameHelp, NameExit>> /\ Len(dlog) = 2
    /\ out = <<PROMPT>> \o HelpText \o <<PROMPT>>
    /\ exitCode = EXIT_SUCCESS

C14_WitnessArgs ==
    /\ pc = "free" /\ handler = "help" /\ Len(Words) = 2
    /\ Printed = <<PROMPT>> \o HelpText

----------------------------------------------------------------------------
\* the children that were spawned and not yet observed in a terminal state
Unobserved == DOMAIN children

\* C15: at most one spawned child is not yet observed in a terminal state, and while
\* there is one the shell is inside the wait of lsh_launch for that very child: it
\* prompts for, reads and dispatches nothing and spawns no other child.
C15_OneChild ==
    /\ Cardinality(Unobserved) <= 1
    /\ Unobserved # {} =>
          /\ pc = "wait"
          /\ Unobserved = {pid}
          /\ Len(dlog) = Len(hist)

C15_Witness ==
    /\ pc = "wait" /\ pid = 2 /\ nextPid = 3
    /\ pid \in DOMAIN children /\ children[pid].state = "stopped"

----------------------------------------------------------------------------
\* the tokens point into the storage of the line: each is an offset inside the buffer
TokensBorrowLine == \A i \in DOMAIN args : args[i] \in 1..Len(line)

\* where line and args stand between the steps of an iteration
C16_Lifetimes ==
    /\ pc \in {"execute", "wait", "free"} =>
          lineMem = "live" /\ argsMem = "live" /\ TokensBorrowLine
    /\ pc = "free_args" => lineMem = "freed" /\ argsMem = "live"
    /\ pc \in {"check", "prompt", "done"} =>
          lineMem \in {"none", "freed"} /\ argsMem = lineMem

\* a step that allocates or releases, or in which the tokens are read
C16_Step ==
    /\ lineMem' # lineMem =>
          \/ pc = "read" /\ lineMem \in {"none", "freed"} /\ lineMem' = "live"
          \/ pc = "free" /\ lineMem = "live" /\ lineMem' = "freed"
    /\ argsMem' # argsMem =>
          \/ pc = "split" /\ argsMem \in {"none", "freed"} /\ argsMem' = "live"
          \/ pc = "free_args" /\ argsMem = "live" /\ argsMem' = "freed"
    /\ pc = "free" /\ pc' # "free" => lineMem' = "freed"
    /\ pc = "free_args" /\ pc' # "free_args" => argsMem' = "freed" /\ lineMem' = "freed"
    /\ dlog' # dlog =>
          /\ lineMem = "live" /\ argsMem = "live"
          /\ dlog' = Append(dlog, Words)
    /\ children' # children => lineMem = "live" /\ argsMem = "live"
    /\ C16_Lifetimes'

\* C16: in each iteration whose dispatcher returns, line and args are released exactly
\* once each, after the dispatch and before the next prompt; the tokens are offsets
\* into the line, and they are read only while the line is live.
C16_ReleasedOnce == [][C16_Step]_vars

C16_Witness ==
    /\ pc = "prompt" /\ nread = 2 /\ lineMem = "freed" /\ argsMem = "freed"
    /\ Len(dlog) = 2 /\ Len(dlog[2]) = 2

----------------------------------------------------------------------------
\* the children still running the shell's own code
ShellCopies == {c \in DOMAIN children : children[c].image = "lsh"}

\* a copy of the shell is either about to call execvp or has ended with a failure status
C17_CopiesOnlyExec ==
    \A c \in ShellCopies :
       \/ children[c].state = "forked"
       \/ children[c].state = "exited" /\ children[c].code = EXIT_FAILURE

\* the one step a copy of the shell takes: its image is replaced, or it ends with a
\* failure status; the loop's position, the lines read and the dispatches stay as they were
C17_Step ==
    /\ \A c \in ShellCopies :
          (c \in DOMAIN children' /\ children'[c] # children[c]) =>
             /\ children[c].state = "forked"
             /\ \/ children'[c].image = "program" /\ children'[c].state = "running"
                \/ /\ children'[c].image = "lsh"
                   /\ children'[c].state = "exited"
                   /\ children'[c].code = EXIT_FAILURE
             /\ UNCHANGED <<pc, hist, dlog, nread, status, cwd, outbuf>>
    /\ (hist' # hist \/ dlog' # dlog \/ pc = "prompt") => children = <<>>
    /\ C17_CopiesOnlyExec'

\* C17: only the original shell runs the loop; a forked child replaces its image or
\* ends with a failure status, and never returns from lsh_launch, prompts, reads or
\* dispatches.
C17_OnlyShellLoops == [][C17_Step]_vars

C17_Witness ==
    /\ pc = "wait" /\ pid \in DOMAIN children
    /\ children[pid].image = "lsh"
    /\ children[pid].state = "exited" /\ children[pid].code = EXIT_FAILURE

C17_WitnessReplaced ==
    /\ pc = "wait" /\ pid \in DOMAIN children
    /\ children[pid].image = "program" /\ children[pid].state = "running"

----------------------------------------------------------------------------
\* a child whose execvp failed ends in this step
ExecFails(c) ==
    /\ c \in ShellCopies /\ c \in DOMAIN children'
    /\ children[c].state = "forked" /\ children'[c].state = "exited"

C18_Step ==
    \A c \in DOMAIN children :
       ExecFails(c) =>
          /\ \E e \in {"ENOENT", "EACCES"} : err' = Append(err, Perror(e))
          /\ out' = out

\* C18: a child whose image replacement fails writes its diagnostic to standard error
\* and nothing to standard output; text it inherited in the output buffer is not
\* emitted again, so each prompt and banner reaches standard output once.
C18_ChildWritesOnlyDiagnostic == [][C18_Step]_vars

----------------------------------------------------------------------------
\* a spawned child has not reached a terminal state
ChildPending == \E c \in DOMAIN children : children[c].state \notin {"exited", "signaled"}

\* C19: the input is finite (at most MaxLines lines, then the end of the stream); if
\* every child spawned reaches a terminal state, the shell eventually terminates.
C19_Terminates == ([]<>(~ChildPending)) => <>(pc = "exited")

\* the lines dispatched so far are the lines read so far, each once, in input order,
\* but for the line being processed; nothing is read while a child is pending
C19_InOrderStep ==
    /\ Len(dlog') \in {Len(hist') - 1, Len(hist')}
    /\ \A i \in DOMAIN dlog' : dlog'[i] = MaximalRuns(hist'[i])
    /\ (pc' = "exited" /\ pc \in {"read", "done"}) => Len(dlog') = Len(hist')
    /\ ChildPending => hist' = hist

C19_DispatchedInOrder == [][C19_InOrderStep]_vars

----------------------------------------------------------------------------
\* the writes of a step, by the data they leave: a character or the terminator stored
\* makes the line one longer, a token stored makes the array one longer, and the end
\* marker goes behind the last token; each index is below the capacity at that moment
C20_Step ==
    /\ (pc = "getchar" /\ line' # line) => Len(line') <= rl.bufsize
    /\ (pc = "tokens" /\ args' # args) => Len(args') <= sl.bufsize
    /\ (pc = "tokens" /\ pc' = "execute") => Len(args) + 1 <= sl.bufsize
    /\ ~oob'

\* C20: every write into the line buffer and into the token array is at an index
\* strictly below the buffer's capacity at the time, for every line length and token
\* count, the exact multiples of 1024 characters and 64 tokens included.
C20_WritesInBounds == [][C20_Step]_vars

C20_Witness ==
    /\ pc = "execute" /\ Len(args) = 2 * 64 /\ sl.bufsize = 3 * 64
    /\ rl.bufsize = 1024

C20_WitnessLine ==
    /\ pc = "execute" /\ Len(line0) = 2 * 1024 /\ rl.bufsize = 3 * 1024
    /\ Len(args) = 1

====
